---- MODULE Spec2Model ----
(***************************************************************************)
(* Model of the parking lot storage layer (storage/parking_lot_storage.go) *)
(* and of the tables it works on (migrations/migration.sql).               *)
(*                                                                         *)
(* The database is the shared state: parking_lots, parking_spaces,         *)
(* parked_vehicles and parking_transactions.  Every SQL statement is one   *)
(* atomic step (autocommit; the code opens no transaction), every request  *)
(* handler is a process that runs its statements in program order, and     *)
(* s.mu is the in-process mutex.  A handler blocked in s.mu.Lock() has     *)
(* done nothing yet, so a call starts at the step that acquires the lock.  *)
(* log.Fatal ends the process: every handler in flight disappears, the     *)
(* rows already written stay.                                              *)
(***************************************************************************)
EXTENDS Integers, Sequences, FiniteSets

\* ---- bounds of the model ----
NumProcs == 2       \* request handlers that may be in flight together
MaxLots == 1        \* rows of parking_lots
MaxSpaces == 2      \* largest totalSpaces a request asks for
MaxParked == 3      \* rows of parked_vehicles
MaxTime == 3670     \* last clock value, in seconds
MaxFailures == 1    \* store errors injected in one behaviour
MaxDays == 1        \* midnights that pass in one behaviour
ReportLots == 2     \* lots that exist when reports are asked for

\* ---- constants of the program ----
ParkingFeeperHour == 10
SecondsPerHour == 3600
SecondsPerDay == 86400

Procs == 1..NumProcs
LotIDs == 1..(ReportLots + 1)
Plates == {"A", "B"}
\* totalSpaces as decoded from the request body; a negative number runs the
\* same statements as 0 (the loop body never runs)
TotalSpacesInputs == 0..MaxSpaces
\* seconds that may pass between two requests: a vehicle parked just before
\* is unparked exactly 60 minutes, or exactly 61 minutes, after its entry
Passes == {SecondsPerHour - 2, SecondsPerHour + 58}

VARIABLES
    parking_lots,          \* sequence of total_spaces; the id is the index
    parking_spaces,        \* per lot id, the sequence of its space rows by number
    parked_vehicles,       \* sequence of rows (parking_lot_id, slot, license_plate, entry_time)
    parking_transactions,  \* sequence of rows (lot_id, vehicle_license_plate, fee, entry_time, exit_time)
    now,                   \* the clock in seconds (NOW() and time.Now()); 0 is before
                           \* every reading and stands for NULL
    mu,                    \* s.mu: the process holding the write lock, 0 when free
    readers,               \* s.mu: the processes holding the read lock
    pc,                    \* per process, the statement it runs next
    loc,                   \* per process, its arguments, locals and return value
    failures               \* store errors so far

vars == <<parking_lots, parking_spaces, parked_vehicles, parking_transactions,
          now, mu, readers, pc, loc, failures>>

db == <<parking_lots, parking_spaces, parked_vehicles, parking_transactions>>

NoLocals == [lot |-> 0, plate |-> "", slot |-> 0, flag |-> FALSE, total |-> 0,
             sid |-> 0, entry |-> 0, exit |-> 0, fee |-> 0,
             status |-> <<>>, stats |-> <<>>,
             op |-> "none", ret |-> "none"]

ParkingSpace(n) == [number |-> n, in_maintenance |-> FALSE, occupied |-> FALSE,
                    entry_time |-> 0]

Init ==
    /\ parking_lots = <<>>
    /\ parking_spaces = <<>>
    /\ parked_vehicles = <<>>
    /\ parking_transactions = <<>>
    /\ now = 0
    /\ mu = 0
    /\ readers = {}
    /\ pc = [p \in Procs |-> "idle"]
    /\ loc = [p \in Procs |-> NoLocals]
    /\ failures = 0

\* ---- helpers ----

\* the lot ids the requests of a state name: the lots of the store and
\* MissingLot, the next id, which no lot has yet
MissingLot == Len(parking_lots) + 1
LotInputs == 1..MissingLot

MinOf(S) == CHOOSE x \in S : \A y \in S : x <= y

\* SELECT total_spaces FROM parking_lots WHERE id = $1 finds a row
LotExists(l) == l \in DOMAIN parking_lots

\* the query without "AND NOT in_maintenance"
EligibleIgnoringMaintenance(l) ==
    {n \in DOMAIN parking_spaces[l] : ~parking_spaces[l][n].occupied}

\* ... FROM parking_spaces WHERE lot_id = $1 AND NOT occupied AND NOT in_maintenance
EligibleSpaces(l) ==
    {n \in DOMAIN parking_spaces[l] :
        /\ ~parking_spaces[l][n].occupied
        /\ ~parking_spaces[l][n].in_maintenance}

\* the query with ORDER BY number DESC
FarthestSlot(S) == CHOOSE x \in S : \A y \in S : y <= x

\* ... ORDER BY number LIMIT 1
NearestSlot(S) == MinOf(S)

\* the handlers without s.mu.Lock()
CanLockAlways(p) == TRUE

\* s.mu.Lock() returns
CanLock(p) == mu = 0 /\ readers = {}

\* s.mu.RLock() returns
CanRLock(p) == mu = 0

\* log.Fatal: os.Exit, the handlers in flight are gone, the rows stay
Fatal ==
    /\ pc' = [p \in Procs |-> "idle"]
    /\ loc' = [p \in Procs |-> NoLocals]
    /\ mu' = 0
    /\ readers' = {}

Goto(p, label) == pc' = [pc EXCEPT ![p] = label]

\* the first statement of a handler decides at once: return r
Enter(p, args, label) ==
    /\ pc' = [pc EXCEPT ![p] = label]
    /\ loc' = [loc EXCEPT ![p] = args]

ReturnWith(p, r) ==
    /\ pc' = [pc EXCEPT ![p] = "ret"]
    /\ loc' = [loc EXCEPT ![p].ret = r]

\* the store fails one statement
StoreFails ==
    /\ failures < MaxFailures
    /\ failures' = failures + 1

\* ---- the clock ----

\* One reading of the clock: it is later than every reading before it.
ReadClock == now + 1

\* Time passes between two requests.
Pass(d) ==
    /\ \A p \in Procs : pc[p] = "idle"
    /\ now + d <= MaxTime
    /\ now' = now + d
    /\ UNCHANGED <<db, mu, readers, pc, loc, failures>>

\* Midnight passes between two requests.
PassDay ==
    /\ \A p \in Procs : pc[p] = "idle"
    /\ now < MaxDays * SecondsPerDay
    /\ now' = now + SecondsPerDay
    /\ UNCHANGED <<db, mu, readers, pc, loc, failures>>

\* ---- CreateParkingLot (takes no lock) ----

\* INSERT INTO parking_lots(total_spaces) VALUES($1) RETURNING id
CreateInsertLot(p, n) ==
    /\ pc[p] = "idle"
    /\ Len(parking_lots) < MaxLots
    /\ parking_lots' = Append(parking_lots, n)
    /\ parking_spaces' = Append(parking_spaces, <<>>)
    /\ LET args == [NoLocals EXCEPT !.op = "create", !.total = n,
                                    !.lot = Len(parking_lots) + 1]
       IN  IF 1 <= n
           THEN Enter(p, args, "create_space")
           ELSE Enter(p, [args EXCEPT !.ret = "ok"], "ret")
    /\ UNCHANGED <<parked_vehicles, parking_transactions, now, mu, readers, failures>>

\* for i := 1; i <= totalSpaces; i++ { INSERT INTO parking_spaces(lot_id, number) }
CreateInsertSpace(p) ==
    /\ pc[p] = "create_space"
    /\ LET l == loc[p].lot
           i == Len(parking_spaces[l]) + 1
       IN  /\ parking_spaces' = [parking_spaces EXCEPT ![l] = Append(@, ParkingSpace(i))]
           /\ IF i + 1 <= loc[p].total
              THEN UNCHANGED <<pc, loc>>
              ELSE ReturnWith(p, "ok")
    /\ UNCHANGED <<parking_lots, parked_vehicles, parking_transactions, now, mu, readers, failures>>

\* either INSERT fails: log.Fatal
CreateParkingLotError(p) ==
    /\ \/ pc[p] = "idle" /\ Len(parking_lots) < MaxLots
       \/ pc[p] = "create_space"
    /\ StoreFails
    /\ Fatal
    /\ UNCHANGED <<db, now>>

\* ---- ParkVehicle ----

\* s.mu.Lock(), then SELECT total_spaces FROM parking_lots WHERE id = $1
ParkSelectLot(p, l, plate) ==
    /\ pc[p] = "idle"
    /\ l \in LotInputs
    /\ CanLock(p)
    /\ Len(parked_vehicles) < MaxParked
    /\ mu' = p
    /\ UNCHANGED readers
    /\ LET args == [NoLocals EXCEPT !.op = "park", !.lot = l, !.plate = plate]
       IN  IF LotExists(l)
           THEN Enter(p, args, "park_space")
           ELSE Enter(p, [args EXCEPT !.ret = "LotNotFound"], "ret")
    /\ UNCHANGED <<db, now, failures>>

\* SELECT id FROM parking_spaces WHERE ... ORDER BY number LIMIT 1
ParkSelectSpace(p) ==
    /\ pc[p] = "park_space"
    /\ IF EligibleSpaces(loc[p].lot) # {}
       THEN /\ loc' = [loc EXCEPT ![p].sid = NearestSlot(EligibleSpaces(loc[p].lot))]
            /\ Goto(p, "park_update")
       ELSE ReturnWith(p, "NoAvailableSpace")
    /\ UNCHANGED <<db, now, mu, readers, failures>>

\* UPDATE parking_spaces SET occupied = true, entry_time = NOW() WHERE id = $1
\* RETURNING number
ParkUpdate(p) ==
    /\ pc[p] = "park_update"
    /\ now' = ReadClock
    /\ parking_spaces' =
          [parking_spaces EXCEPT ![loc[p].lot][loc[p].sid] =
              [@ EXCEPT !.occupied = TRUE, !.entry_time = ReadClock]]
    /\ loc' = [loc EXCEPT ![p].slot = parking_spaces[loc[p].lot][loc[p].sid].number]
    /\ Goto(p, "park_insert")
    /\ UNCHANGED <<parking_lots, parked_vehicles, parking_transactions, mu, readers, failures>>

\* INSERT INTO parked_vehicles(...) VALUES($1,$2,$3,NOW()) RETURNING id
ParkInsert(p) ==
    /\ pc[p] = "park_insert"
    /\ now' = ReadClock
    /\ parked_vehicles' = Append(parked_vehicles,
          [parking_lot_id |-> loc[p].lot, slot |-> loc[p].slot,
           license_plate |-> loc[p].plate, entry_time |-> ReadClock])
    /\ ReturnWith(p, "ok")
    /\ UNCHANGED <<parking_lots, parking_spaces, parking_transactions, mu, readers, failures>>

\* the err != nil branches of ParkVehicle when the store fails the statement
ParkVehicleError(p, l, plate) ==
    /\ StoreFails
    /\ l \in LotInputs
    /\ \/ /\ pc[p] = "idle"
          /\ CanLock(p)
          /\ mu' = p
          /\ UNCHANGED readers
          /\ Enter(p, [NoLocals EXCEPT !.op = "park", !.lot = l, !.plate = plate,
                                       !.ret = "LotNotFound"], "ret")
       \/ /\ pc[p] = "park_space"
          /\ loc[p].lot = l /\ loc[p].plate = plate
          /\ ReturnWith(p, "NoAvailableSpace")
          /\ UNCHANGED <<mu, readers>>
       \/ /\ pc[p] = "park_update"
          /\ loc[p].lot = l /\ loc[p].plate = plate
          /\ ReturnWith(p, "PersistenceFailure")
          /\ UNCHANGED <<mu, readers>>
       \/ /\ pc[p] = "park_insert"
          /\ loc[p].lot = l /\ loc[p].plate = plate
          /\ Fatal
    /\ UNCHANGED <<db, now>>

\* ---- UnparkVehicle ----

\* the hours truncated instead of rounded up
FloorHours(d) == d \div SecondsPerHour

\* math.Ceil(parkingTime.Hours()) for a duration of d seconds
CeilHours(d) ==
    IF d % SecondsPerHour = 0 THEN d \div SecondsPerHour ELSE d \div SecondsPerHour + 1

\* fee := int(math.Ceil(parkingTime.Hours())) * 10
Fee(entryTime, exitTime) == CeilHours(exitTime - entryTime) * ParkingFeeperHour

\* rows of parked_vehicles JOIN parking_spaces ON lot and slot = number
\* WHERE parking_spaces.lot_id = $1 AND license_plate = $2 AND occupied = TRUE
UnparkMatches(l, plate) ==
    {i \in DOMAIN parked_vehicles :
        /\ parked_vehicles[i].parking_lot_id = l
        /\ parked_vehicles[i].license_plate = plate
        /\ LotExists(l)
        /\ parked_vehicles[i].slot \in DOMAIN parking_spaces[l]
        /\ parking_spaces[l][parked_vehicles[i].slot].occupied}

\* s.mu.Lock(), then the SELECT over the join; QueryRow scans the first row
\* of a result that has no ORDER BY: any of the matching rows
UnparkSelect(p, l, plate) ==
    /\ pc[p] = "idle"
    /\ l \in LotInputs
    /\ CanLock(p)
    /\ mu' = p
    /\ UNCHANGED readers
    /\ LET args == [NoLocals EXCEPT !.op = "unpark", !.lot = l, !.plate = plate]
       IN  IF UnparkMatches(l, plate) # {}
           THEN \E i \in UnparkMatches(l, plate) :
                   Enter(p, [args EXCEPT !.sid = parked_vehicles[i].slot], "unpark_update")
           ELSE Enter(p, [args EXCEPT !.ret = "OccupantNotFound"], "ret")
    /\ UNCHANGED <<db, now, failures>>

\* UPDATE parking_spaces SET occupied = false WHERE id = $1 RETURNING entry_time,
\* then exitTime := time.Now() and the fee
UnparkUpdate(p) ==
    /\ pc[p] = "unpark_update"
    /\ LET entryTime == parking_spaces[loc[p].lot][loc[p].sid].entry_time
       IN  /\ parking_spaces' =
                 [parking_spaces EXCEPT ![loc[p].lot][loc[p].sid].occupied = FALSE]
           /\ now' = ReadClock
           /\ loc' = [loc EXCEPT ![p].entry = entryTime,
                                 ![p].exit = ReadClock,
                                 ![p].fee = Fee(entryTime, ReadClock)]
    /\ Goto(p, "unpark_txn")
    /\ UNCHANGED <<parking_lots, parked_vehicles, parking_transactions, mu, readers, failures>>

\* the table after INSERT INTO parking_transactions of one row
KeepLatestTransaction(row) == <<row>>

InsertTransaction(row) == Append(parking_transactions, row)

\* INSERT INTO parking_transactions(...) VALUES($1,$2,$3,$4,NOW()); return fee
UnparkInsert(p) ==
    /\ pc[p] = "unpark_txn"
    /\ now' = ReadClock
    /\ parking_transactions' = InsertTransaction(
          [lot_id |-> loc[p].lot, vehicle_license_plate |-> loc[p].plate,
           fee |-> loc[p].fee, entry_time |-> loc[p].entry, exit_time |-> ReadClock])
    /\ ReturnWith(p, "ok")
    /\ UNCHANGED <<parking_lots, parking_spaces, parked_vehicles, mu, readers, failures>>

\* the err != nil branches of UnparkVehicle when the store fails the statement
UnparkVehicleError(p, l, plate) ==
    /\ StoreFails
    /\ l \in LotInputs
    /\ \/ /\ pc[p] = "idle"
          /\ CanLock(p)
          /\ mu' = p
          /\ UNCHANGED readers
          /\ Enter(p, [NoLocals EXCEPT !.op = "unpark", !.lot = l, !.plate = plate,
                                       !.ret = "OccupantNotFound"], "ret")
       \/ /\ pc[p] = "unpark_update"
          /\ loc[p].lot = l /\ loc[p].plate = plate
          /\ ReturnWith(p, "PersistenceFailure")
          /\ UNCHANGED <<mu, readers>>
       \/ /\ pc[p] = "unpark_txn"
          /\ loc[p].lot = l /\ loc[p].plate = plate
          /\ Fatal
    /\ UNCHANGED <<db, now>>

\* ---- ToggleMaintenance ----

\* s.mu.Lock(), then SELECT total_spaces FROM parking_lots WHERE id = $1
ToggleSelectLot(p, l, n, flag) ==
    /\ pc[p] = "idle"
    /\ l \in LotInputs
    /\ CanLock(p)
    /\ mu' = p
    /\ UNCHANGED readers
    /\ LET args == [NoLocals EXCEPT !.op = "toggle", !.lot = l, !.slot = n, !.flag = flag]
       IN  IF LotExists(l)
           THEN Enter(p, args, "toggle_update")
           ELSE Enter(p, [args EXCEPT !.ret = "LotNotFound"], "ret")
    /\ UNCHANGED <<db, now, failures>>

\* UPDATE parking_spaces SET in_maintenance = $1 WHERE lot_id = $2 AND number = $3;
\* a number with no row updates nothing and is no error
ToggleUpdate(p) ==
    /\ pc[p] = "toggle_update"
    /\ parking_spaces' =
          IF loc[p].slot \in DOMAIN parking_spaces[loc[p].lot]
          THEN [parking_spaces EXCEPT
                   ![loc[p].lot][loc[p].slot].in_maintenance = loc[p].flag]
          ELSE parking_spaces
    /\ ReturnWith(p, "ok")
    /\ UNCHANGED <<parking_lots, parked_vehicles, parking_transactions, now, mu, readers, failures>>

\* the err != nil branches of ToggleMaintenance when the store fails the statement
ToggleMaintenanceError(p, l, n, flag) ==
    /\ StoreFails
    /\ l \in LotInputs
    /\ \/ /\ pc[p] = "idle"
          /\ CanLock(p)
          /\ mu' = p
          /\ UNCHANGED readers
          /\ Enter(p, [NoLocals EXCEPT !.op = "toggle", !.lot = l, !.slot = n,
                                       !.flag = flag, !.ret = "LotNotFound"], "ret")
       \/ /\ pc[p] = "toggle_update"
          /\ loc[p].lot = l /\ loc[p].slot = n /\ loc[p].flag = flag
          /\ ReturnWith(p, "PersistenceFailure")
          /\ UNCHANGED <<mu, readers>>
    /\ UNCHANGED <<db, now>>

\* ---- ViewParkingLotStatus ----

\* the rows of parking_spaces LEFT JOIN parked_vehicles ON lot and slot WHERE
\* lot_id = $1 AND occupied = TRUE: <<space, record>>, record 0 being the
\* NULL-extended row of a space that no record joins
StatusRows(l) ==
    {<<n, i>> \in (DOMAIN parking_spaces[l]) \X (0..Len(parked_vehicles)) :
        /\ parking_spaces[l][n].occupied
        /\ IF i = 0
           THEN \A j \in DOMAIN parked_vehicles :
                   ~ (parked_vehicles[j].parking_lot_id = l /\ parked_vehicles[j].slot = n)
           ELSE parked_vehicles[i].parking_lot_id = l /\ parked_vehicles[i].slot = n}

\* rows.Scan into the VehicleStatus of one row
VehicleStatus(l, r) ==
    [Vehicle |-> parked_vehicles[r[2]].license_plate,
     SlotNumber |-> parking_spaces[l][r[1]].number,
     EntryTime |-> parking_spaces[l][r[1]].entry_time]

\* status.ParkedVehicles: the map's keys are the positions of the rows in a
\* result that has no ORDER BY, so the map is kept as its values with their
\* multiplicities
ParkedVehicles(l) ==
    LET entries == {VehicleStatus(l, r) : r \in StatusRows(l)}
    IN  [e \in entries |->
            Cardinality({r \in StatusRows(l) : VehicleStatus(l, r) = e})]

\* s.mu.RLock(), then SELECT total_spaces FROM parking_lots WHERE id = $1
StatusSelectLot(p, l) ==
    /\ pc[p] = "idle"
    /\ l \in LotInputs
    /\ CanRLock(p)
    /\ readers' = readers \cup {p}
    /\ LET args == [NoLocals EXCEPT !.op = "status", !.lot = l]
       IN  IF LotExists(l)
           THEN Enter(p, args, "status_query")
           ELSE Enter(p, [args EXCEPT !.ret = "LotNotFound"], "ret")
    /\ UNCHANGED <<db, now, mu, failures>>

\* the SELECT over the join and the loop over its rows; a NULL license_plate
\* does not scan into a string
StatusQuery(p) ==
    /\ pc[p] = "status_query"
    /\ IF \E r \in StatusRows(loc[p].lot) : r[2] = 0
       THEN ReturnWith(p, "PersistenceFailure")
       ELSE /\ pc' = [pc EXCEPT ![p] = "ret"]
            /\ loc' = [loc EXCEPT ![p].status = ParkedVehicles(loc[p].lot),
                                  ![p].ret = "ok"]
    /\ UNCHANGED <<db, now, mu, readers, failures>>

\* the err != nil branches of ViewParkingLotStatus when the store fails the
\* statement
ViewParkingLotStatusError(p, l) ==
    /\ StoreFails
    /\ l \in LotInputs
    /\ \/ /\ pc[p] = "idle"
          /\ CanRLock(p)
          /\ readers' = readers \cup {p}
          /\ Enter(p, [NoLocals EXCEPT !.op = "status", !.lot = l,
                                       !.ret = "LotNotFound"], "ret")
       \/ /\ pc[p] = "status_query"
          /\ loc[p].lot = l
          /\ ReturnWith(p, "PersistenceFailure")
          /\ UNCHANGED readers
    /\ UNCHANGED <<db, now, mu>>

\* ---- GetReports ----

\* DATE(t)
DayOf(t) == t \div SecondsPerDay

\* the rows of parking_transactions WHERE lot_id = $1
TransactionsOf(l) ==
    {i \in DOMAIN parking_transactions : parking_transactions[i].lot_id = l}

\* the rows of one group of GROUP BY day
TransactionsOn(l, d) ==
    {i \in TransactionsOf(l) : DayOf(parking_transactions[i].exit_time) = d}

\* SUM(fee) over the rows S
RECURSIVE SumFee(_)
SumFee(S) ==
    IF S = {} THEN 0
    ELSE LET i == MinOf(S) IN parking_transactions[i].fee + SumFee(S \ {i})

\* SUM(EXTRACT(EPOCH FROM (exit_time - entry_time))) over the rows S, in
\* seconds: the query's value is this number over 3600
RECURSIVE SumSeconds(_)
SumSeconds(S) ==
    IF S = {} THEN 0
    ELSE LET i == MinOf(S)
         IN  (parking_transactions[i].exit_time - parking_transactions[i].entry_time)
                + SumSeconds(S \ {i})

\* the row of one group scanned into a DailyStats
DailyStats(l, d) ==
    [Day |-> d,
     TotalVehicles |-> Cardinality(TransactionsOn(l, d)),
     TotalParkingTime |-> SumSeconds(TransactionsOn(l, d)),
     TotalFee |-> SumFee(TransactionsOn(l, d))]

\* ORDER BY day
RECURSIVE DescendingDays(_)
DescendingDays(D) ==
    IF D = {} THEN <<>>
    ELSE LET d == CHOOSE x \in D : \A y \in D : y <= x
         IN  <<d>> \o DescendingDays(D \ {d})

RECURSIVE OrderByDay(_)
OrderByDay(D) ==
    IF D = {} THEN <<>>
    ELSE <<MinOf(D)>> \o OrderByDay(D \ {MinOf(D)})

\* dailyStatsList: one DailyStats per group, in the order of the query
DailyStatsList(l) ==
    LET days == OrderByDay({DayOf(parking_transactions[i].exit_time) : i \in TransactionsOf(l)})
    IN  [k \in DOMAIN days |-> DailyStats(l, days[k])]

\* s.mu.RLock(), then SELECT total_spaces FROM parking_lots WHERE id = $1
ReportSelectLot(p, l) ==
    /\ pc[p] = "idle"
    /\ l \in LotInputs
    /\ CanRLock(p)
    /\ readers' = readers \cup {p}
    /\ LET args == [NoLocals EXCEPT !.op = "report", !.lot = l]
       IN  IF LotExists(l)
           THEN Enter(p, args, "report_query")
           ELSE Enter(p, [args EXCEPT !.ret = "LotNotFound"], "ret")
    /\ UNCHANGED <<db, now, mu, failures>>

\* the grouped SELECT and the loop over its rows
ReportQuery(p) ==
    /\ pc[p] = "report_query"
    /\ pc' = [pc EXCEPT ![p] = "ret"]
    /\ loc' = [loc EXCEPT ![p].stats = DailyStatsList(loc[p].lot), ![p].ret = "ok"]
    /\ UNCHANGED <<db, now, mu, readers, failures>>

\* the err != nil branches of GetReports when the store fails the statement
GetReportsError(p, l) ==
    /\ StoreFails
    /\ l \in LotInputs
    /\ \/ /\ pc[p] = "idle"
          /\ CanRLock(p)
          /\ readers' = readers \cup {p}
          /\ Enter(p, [NoLocals EXCEPT !.op = "report", !.lot = l,
                                       !.ret = "LotNotFound"], "ret")
       \/ /\ pc[p] = "report_query"
          /\ loc[p].lot = l
          /\ ReturnWith(p, "PersistenceFailure")
          /\ UNCHANGED readers
    /\ UNCHANGED <<db, now, mu>>

\* ---- return of a handler: the deferred s.mu.Unlock() runs ----

Return(p) ==
    /\ pc[p] = "ret"
    /\ mu' = IF mu = p THEN 0 ELSE mu
    /\ readers' = readers \ {p}
    /\ pc' = [pc EXCEPT ![p] = "idle"]
    /\ loc' = [loc EXCEPT ![p] = NoLocals]
    /\ UNCHANGED <<db, now, failures>>

\* ---- specifications ----

\* the statements of the handlers that work on the spaces of a lot, the store
\* answering every one
Requests ==
    \/ \E p \in Procs, n \in TotalSpacesInputs : CreateInsertLot(p, n)
    \/ \E p \in Procs : CreateInsertSpace(p)
    \/ \E p \in Procs, l \in LotIDs, plate \in Plates : ParkSelectLot(p, l, plate)
    \/ \E p \in Procs : ParkSelectSpace(p)
    \/ \E p \in Procs : ParkUpdate(p)
    \/ \E p \in Procs : ParkInsert(p)
    \/ \E p \in Procs, l \in LotIDs, plate \in Plates : UnparkSelect(p, l, plate)
    \/ \E p \in Procs : UnparkUpdate(p)
    \/ \E p \in Procs : UnparkInsert(p)
    \/ \E p \in Procs, l \in LotIDs, n \in 1..MaxSpaces, flag \in BOOLEAN :
          ToggleSelectLot(p, l, n, flag)
    \/ \E p \in Procs : ToggleUpdate(p)
    \/ \E p \in Procs, l \in LotIDs : StatusSelectLot(p, l)
    \/ \E p \in Procs : StatusQuery(p)
    \/ \E p \in Procs : Return(p)

\* a statement the store fails
StoreErrors ==
    \/ \E p \in Procs : CreateParkingLotError(p)
    \/ \E p \in Procs, l \in LotIDs, plate \in Plates : ParkVehicleError(p, l, plate)
    \/ \E p \in Procs, l \in LotIDs, plate \in Plates : UnparkVehicleError(p, l, plate)
    \/ \E p \in Procs, l \in LotIDs, n \in 1..MaxSpaces, flag \in BOOLEAN :
          ToggleMaintenanceError(p, l, n, flag)
    \/ \E p \in Procs, l \in LotIDs : ViewParkingLotStatusError(p, l)

\* Requests under a store that may fail: the clock is read once per statement
\* that uses it and no time passes otherwise.
Next == Requests \/ StoreErrors

Spec == Init /\ [][Next]_vars

\* Requests under a store that answers, with time passing between requests.
NextClock == Requests \/ \E d \in Passes : Pass(d)

SpecClock == Init /\ [][NextClock]_vars

\* ReportLots lots of one space each have been created; vehicles come and go over
\* the days and reports are asked for; the store may fail a statement of a
\* report.
InitReport ==
    /\ parking_lots = [l \in 1..ReportLots |-> 1]
    /\ parking_spaces = [l \in 1..ReportLots |-> <<ParkingSpace(1)>>]
    /\ parked_vehicles = <<>>
    /\ parking_transactions = <<>>
    /\ now = 0
    /\ mu = 0
    /\ readers = {}
    /\ pc = [p \in Procs |-> "idle"]
    /\ loc = [p \in Procs |-> NoLocals]
    /\ failures = 0

NextReport ==
    \/ \E p \in Procs, l \in LotIDs, plate \in Plates : ParkSelectLot(p, l, plate)
    \/ \E p \in Procs : ParkSelectSpace(p)
    \/ \E p \in Procs : ParkUpdate(p)
    \/ \E p \in Procs : ParkInsert(p)
    \/ \E p \in Procs, l \in LotIDs, plate \in Plates : UnparkSelect(p, l, plate)
    \/ \E p \in Procs : UnparkUpdate(p)
    \/ \E p \in Procs : UnparkInsert(p)
    \/ \E p \in Procs, l \in LotIDs : ReportSelectLot(p, l)
    \/ \E p \in Procs : ReportQuery(p)
    \/ \E p \in Procs : Return(p)
    \/ \E p \in Procs, l \in LotIDs : GetReportsError(p, l)
    \/ PassDay

SpecReport == InitReport /\ [][NextReport]_vars

\* ---- properties ----

Occupied(l, n) == parking_spaces[l][n].occupied
InMaintenance(l, n) == parking_spaces[l][n].in_maintenance
Spaces(l) == DOMAIN parking_spaces[l]

\* the lot has the spaces 1..total_spaces it was created for
FullyCreated(l) == Len(parking_spaces[l]) >= parking_lots[l]

\* the occupancy records written for a space, and their number per lot
RecordsOf(l, n) ==
    {i \in DOMAIN parked_vehicles :
        parked_vehicles[i].parking_lot_id = l /\ parked_vehicles[i].slot = n}
ParkedIn(l) == {i \in DOMAIN parked_vehicles : parked_vehicles[i].parking_lot_id = l}
ClosedIn(l) == {i \in DOMAIN parking_transactions : parking_transactions[i].lot_id = l}
OccupiedSpaces(l) == {n \in Spaces(l) : Occupied(l, n)}

\* the vehicle that holds space n now: the one of the latest park into it
HoldsSpace(l, n, plate) ==
    /\ Occupied(l, n)
    /\ RecordsOf(l, n) # {}
    /\ LET last == CHOOSE i \in RecordsOf(l, n) : \A j \in RecordsOf(l, n) : j <= i
       IN  parked_vehicles[last].license_plate = plate
HasActiveOccupancy(l, plate) == \E n \in Spaces(l) : HoldsSpace(l, n, plate)

\* no ParkVehicle or UnparkVehicle stands between its two writes
NoWritePending == \A p \in Procs : pc[p] \notin {"park_insert", "unpark_txn"}

\* process p claims a space in this step: its UPDATE ... RETURNING number ran
Claims(p) == pc[p] = "park_update" /\ pc'[p] = "park_insert"
Returned(p, op, r) == pc[p] = "ret" /\ loc[p].op = op /\ loc[p].ret = r

\* C1: no double allocation. Under every interleaving of ParkVehicle calls
\* (with UnparkVehicle, ToggleMaintenance and CreateParkingLot running too),
\* the space a call claims was not occupied when the call claimed it: an
\* occupied space is not claimed again while it stays occupied.
C1_NoDoubleAllocation ==
    [][\A p \in Procs : Claims(p) => ~Occupied(loc[p].lot, loc'[p].slot)]_vars

\* two calls have succeeded on one lot and hold different spaces
C1_Witness ==
    \E p \in Procs :
        /\ Returned(p, "park", "ok")
        /\ loc[p].slot = 2
        /\ Occupied(loc[p].lot, 1)
        /\ Occupied(loc[p].lot, 2)

\* C2: with a store that answers, every successful ParkVehicle takes one more
\* space (occupied spaces = successful parks minus closes, in every
\* interleaving), and a call on a fully created lot goes on to claim a space
\* when one is free and not in maintenance and ends in NoAvailableSpace when
\* none is: k eligible spaces give exactly k successes, then failures.
C2_ExactlyKSucceed ==
    /\ [](\A l \in DOMAIN parking_lots :
            (failures = 0 /\ NoWritePending) =>
                Cardinality(OccupiedSpaces(l)) =
                    Cardinality(ParkedIn(l)) - Cardinality(ClosedIn(l)))
    /\ [][\A p \in Procs :
            (/\ pc[p] = "park_space" /\ pc'[p] # "park_space"
             /\ failures' = 0
             /\ FullyCreated(loc[p].lot))
            => IF \E n \in Spaces(loc[p].lot) :
                     ~Occupied(loc[p].lot, n) /\ ~InMaintenance(loc[p].lot, n)
               THEN pc'[p] = "park_update"
               ELSE pc'[p] = "ret" /\ loc'[p].ret = "NoAvailableSpace"]_vars

\* a lot of 2 spaces, 2 calls have succeeded and the third one fails
C2_Witness ==
    \E p \in Procs :
        /\ Returned(p, "park", "NoAvailableSpace")
        /\ failures = 0
        /\ parking_lots[loc[p].lot] = 2
        /\ Cardinality(ParkedIn(loc[p].lot)) = 2
        /\ Cardinality(ClosedIn(loc[p].lot)) = 0
        /\ \A n \in 1..2 : Occupied(loc[p].lot, n) /\ ~InMaintenance(loc[p].lot, n)

\* C3 (as claimed): UnparkVehicle for a plate that holds no space of the lot
\* finds no row and goes no further than OccupantNotFound; so a call that got
\* past the lookup, to the statement that frees a space, is for a plate that
\* holds a space of the lot.
C3_CloseNeedsActiveOccupancy ==
    \A p \in Procs :
        (pc[p] = "unpark_update" /\ failures = 0) =>
            HasActiveOccupancy(loc[p].lot, loc[p].plate)

\* C4: the space a ParkVehicle call claims is the lowest-numbered space of
\* the lot that is free and not in maintenance at the moment of the claim.
C4_LowestEligible ==
    [][\A p \in Procs :
          Claims(p) =>
              LET l == loc[p].lot
                  n == loc'[p].slot
              IN  /\ n \in Spaces(l)
                  /\ ~Occupied(l, n) /\ ~InMaintenance(l, n)
                  /\ \A m \in Spaces(l) :
                        (~Occupied(l, m) /\ ~InMaintenance(l, m)) => n <= m]_vars

\* a call has claimed space 1 while space 2 is free and in service as well
C4_Witness ==
    \E p \in Procs :
        /\ pc[p] = "park_insert"
        /\ loc[p].slot = 1
        /\ 2 \in Spaces(loc[p].lot)
        /\ ~Occupied(loc[p].lot, 2) /\ ~InMaintenance(loc[p].lot, 2)

\* C5: no step turns occupied from false to true on a space that is in
\* maintenance, under every interleaving with ToggleMaintenance.
C5_NeverClaimsMaintenance ==
    [][\A l \in DOMAIN parking_spaces : \A n \in Spaces(l) :
          (~Occupied(l, n) /\ parking_spaces'[l][n].occupied) => ~InMaintenance(l, n)]_vars

\* a call has claimed space 2 because space 1, free, is in maintenance
C5_Witness ==
    \E p \in Procs :
        /\ pc[p] = "park_insert"
        /\ loc[p].slot = 2
        /\ ~Occupied(loc[p].lot, 1) /\ InMaintenance(loc[p].lot, 1)

C7_OneRecordPerOccupiedSpace ==
    (failures = 0 /\ NoWritePending) =>
        \A l \in DOMAIN parking_spaces : \A n \in Spaces(l) :
            Cardinality(RecordsOf(l, n)) = IF Occupied(l, n) THEN 1 ELSE 0

\* C8 (as claimed): a space is not left occupied without an occupancy record:
\* outside the call that has claimed it and is about to write the record,
\* every occupied space has a record.
C8_NoClaimWithoutRecord ==
    \A l \in DOMAIN parking_spaces : \A n \in Spaces(l) :
        (/\ Occupied(l, n)
         /\ ~\E p \in Procs : pc[p] = "park_insert" /\ loc[p].lot = l /\ loc[p].slot = n)
        => RecordsOf(l, n) # {}

\* C9 (as claimed): CreateParkingLot with totalSpaces <= 0 returns
\* InvalidArgument and every lot that exists has a positive space count.
C9_InvalidArgument ==
    /\ \A p \in Procs :
          (pc[p] = "ret" /\ loc[p].op = "create" /\ loc[p].total <= 0) =>
              loc[p].ret = "InvalidArgument"
    /\ \A l \in DOMAIN parking_lots : parking_lots[l] > 0

\* C10 (as claimed): a handler that has found the lot sees all the spaces the
\* lot was created for, and a lot no CreateParkingLot call is working on has
\* all its spaces.
C10_NoPartialLot ==
    /\ \A p \in Procs :
          pc[p] \in {"park_space", "park_update", "toggle_update"} =>
              FullyCreated(loc[p].lot)
    /\ \A l \in DOMAIN parking_lots :
          (~\E p \in Procs : pc[p] = "create_space" /\ loc[p].lot = l) => FullyCreated(l)

\* the latest occupancy record written for space n of lot l
LastRecord(l, n) == CHOOSE i \in RecordsOf(l, n) : \A j \in RecordsOf(l, n) : j <= i

\* what a status of lot l has to say: one entry per occupied space, with the
\* plate of the vehicle that holds it and the space's entry time
CurrentOccupancy(l) ==
    [e \in {[Vehicle |-> parked_vehicles[LastRecord(l, n)].license_plate,
             SlotNumber |-> n,
             EntryTime |-> parking_spaces[l][n].entry_time] :
                n \in {m \in OccupiedSpaces(l) : RecordsOf(l, m) # {}}} |-> 1]

\* C11: a ViewParkingLotStatus that succeeds returns exactly one entry per
\* currently occupied space, carrying the current occupant's plate and entry
\* time, and never an entry of a former occupant.
C11_StatusIsCurrentOccupancy ==
    \A p \in Procs :
        Returned(p, "status", "ok") => loc[p].status = CurrentOccupancy(loc[p].lot)

\* process p runs the UPDATE of ToggleMaintenance in this step
Toggles(p) == pc[p] = "toggle_update" /\ pc'[p] = "ret" /\ loc'[p].ret = "ok"

\* the step changes nothing of the store but the in_maintenance flag of space
\* n of lot l
OnlyMaintenanceOf(l, n) ==
    /\ parking_lots' = parking_lots
    /\ parked_vehicles' = parked_vehicles
    /\ parking_transactions' = parking_transactions
    /\ DOMAIN parking_spaces' = DOMAIN parking_spaces
    /\ \A k \in DOMAIN parking_spaces :
          /\ DOMAIN parking_spaces'[k] = DOMAIN parking_spaces[k]
          /\ \A m \in DOMAIN parking_spaces[k] :
                IF k = l /\ m = n
                THEN parking_spaces'[k][m] =
                        [parking_spaces[k][m] EXCEPT
                            !.in_maintenance = parking_spaces'[k][m].in_maintenance]
                ELSE parking_spaces'[k][m] = parking_spaces[k][m]

\* the frame of C12 alone: ToggleMaintenance writes the flag it was given into
\* the one space and leaves the rest of the store as it was
C12_Frame ==
    [][\A p \in Procs :
          Toggles(p) =>
              /\ OnlyMaintenanceOf(loc[p].lot, loc[p].slot)
              /\ loc[p].slot \in Spaces(loc[p].lot) =>
                    InMaintenance(loc[p].lot, loc[p].slot)' = loc[p].flag]_vars

\* process p starts an UnparkVehicle in this step and the store answers
StartsUnpark(p) ==
    pc[p] = "idle" /\ pc'[p] # "idle" /\ loc'[p].op = "unpark" /\ failures' = failures

\* C12: ToggleMaintenance on an existing lot changes only the in_maintenance
\* flag of the one space (occupied flags, entry times, the other spaces'
\* flags, occupancy records and transactions stay), so a space put into
\* maintenance while occupied keeps its occupant, and a later UnparkVehicle of
\* that plate succeeds and frees that space.
C12_MaintenanceKeepsOccupant ==
    [][\A p \in Procs :
          /\ Toggles(p) =>
                /\ OnlyMaintenanceOf(loc[p].lot, loc[p].slot)
                /\ \A plate \in Plates :
                      (/\ loc[p].slot \in Spaces(loc[p].lot)
                       /\ HoldsSpace(loc[p].lot, loc[p].slot, plate))
                      => HoldsSpace(loc[p].lot, loc[p].slot, plate)'
          /\ (/\ StartsUnpark(p)
              /\ LotExists(loc'[p].lot)
              /\ \E n \in Spaces(loc'[p].lot) :
                    /\ InMaintenance(loc'[p].lot, n)
                    /\ HoldsSpace(loc'[p].lot, n, loc'[p].plate))
             => /\ pc'[p] = "unpark_update"
                /\ HoldsSpace(loc'[p].lot, loc'[p].sid, loc'[p].plate)]_vars

\* C13: every transaction UnparkVehicle writes is consistent with one clock
\* reading: its fee is the hours between its own entry_time and exit_time,
\* rounded up, times the hourly rate, and it is the fee returned to the caller.
C13_TransactionConsistent ==
    /\ \A i \in DOMAIN parking_transactions :
          parking_transactions[i].fee =
              Fee(parking_transactions[i].entry_time, parking_transactions[i].exit_time)
    /\ \A p \in Procs :
          Returned(p, "unpark", "ok") =>
              loc[p].fee = parking_transactions[Len(parking_transactions)].fee

\* the calendar date a transaction was closed on
ExitDate(i) == parking_transactions[i].exit_time \div SecondsPerDay

\* the fees, and the seconds stayed, of the first k transactions that are of
\* lot l and were closed on date d
RECURSIVE FeeTotal(_, _, _)
FeeTotal(l, d, k) ==
    IF k = 0 THEN 0
    ELSE FeeTotal(l, d, k - 1) +
            IF parking_transactions[k].lot_id = l /\ ExitDate(k) = d
            THEN parking_transactions[k].fee ELSE 0

RECURSIVE TimeTotal(_, _, _)
TimeTotal(l, d, k) ==
    IF k = 0 THEN 0
    ELSE TimeTotal(l, d, k - 1) +
            IF parking_transactions[k].lot_id = l /\ ExitDate(k) = d
            THEN parking_transactions[k].exit_time - parking_transactions[k].entry_time
            ELSE 0

\* C14: GetReports on an existing lot returns one DailyStats per distinct
\* calendar date of exit_time among the lot's transactions and no other, in
\* strictly ascending date order; each entry counts the lot's transactions of
\* that exit date, sums their fees and sums their exit_time - entry_time;
\* transactions of other lots are not counted, a lot without transactions
\* gives the empty sequence and a missing lot gives LotNotFound.
C14_ReportPerExitDate ==
    \A p \in Procs :
        (pc[p] = "ret" /\ loc[p].op = "report" /\ failures = 0) =>
            LET l == loc[p].lot
                R == loc[p].stats
            IN  /\ loc[p].ret = IF LotExists(l) THEN "ok" ELSE "LotNotFound"
                /\ LotExists(l) =>
                      /\ \A j, k \in DOMAIN R : j < k => R[j].Day < R[k].Day
                      /\ {R[k].Day : k \in DOMAIN R} = {ExitDate(i) : i \in ClosedIn(l)}
                      /\ \A k \in DOMAIN R :
                            /\ R[k].TotalVehicles =
                                  Cardinality({i \in ClosedIn(l) : ExitDate(i) = R[k].Day})
                            /\ R[k].TotalFee =
                                  FeeTotal(l, R[k].Day, Len(parking_transactions))
                            /\ R[k].TotalParkingTime =
                                  TimeTotal(l, R[k].Day, Len(parking_transactions))

\* a report of two days for a lot, while the other lot has a transaction too
C14_Witness ==
    \E p \in Procs :
        /\ Returned(p, "report", "ok")
        /\ Len(loc[p].stats) = 2
        /\ loc[p].stats[1].TotalFee > 0
        /\ \E i \in DOMAIN parking_transactions :
              parking_transactions[i].lot_id # loc[p].lot

\* process p starts a ParkVehicle in this step and the store answers
StartsPark(p) ==
    pc[p] = "idle" /\ pc'[p] # "idle" /\ loc'[p].op = "park" /\ failures' = failures

\* process p runs the SELECT for a space in this step and the store answers
SelectsSpace(p) ==
    pc[p] = "park_space" /\ pc'[p] # "park_space" /\ failures' = failures

\* C15: ParkVehicle on a lot id that does not exist fails with LotNotFound,
\* and on an existing lot whose spaces are all occupied or in maintenance it
\* fails with NoAvailableSpace; in both cases the call changes no space flag,
\* no entry time, no occupancy record and no transaction of any lot.
C15_FailedParkChangesNothing ==
    [][\A p \in Procs :
          /\ (StartsPark(p) /\ ~LotExists(loc'[p].lot))
             => /\ pc'[p] = "ret" /\ loc'[p].ret = "LotNotFound"
                /\ UNCHANGED db
          /\ (StartsPark(p) /\ LotExists(loc'[p].lot))
             => /\ pc'[p] = "park_space"
                /\ UNCHANGED db
          /\ (/\ SelectsSpace(p)
              /\ \A n \in Spaces(loc[p].lot) :
                    Occupied(loc[p].lot, n) \/ InMaintenance(loc[p].lot, n))
             => /\ pc'[p] = "ret" /\ loc'[p].ret = "NoAvailableSpace"
                /\ UNCHANGED db]_vars

\* a call has failed with NoAvailableSpace on a lot whose space 1 is occupied
\* and whose space 2 is free but in maintenance
C15_Witness ==
    \E p \in Procs :
        /\ Returned(p, "park", "NoAvailableSpace")
        /\ Len(parking_spaces[loc[p].lot]) = 2
        /\ Occupied(loc[p].lot, 1) /\ ~InMaintenance(loc[p].lot, 1)
        /\ ~Occupied(loc[p].lot, 2) /\ InMaintenance(loc[p].lot, 2)
        /\ parked_vehicles # <<>>

\* space k of lot l is the space the latest UnparkVehicle freed, and it is
\* still free: the latest transaction carries the entry time the space keeps
JustFreed(l, k) ==
    /\ ~Occupied(l, k)
    /\ parking_transactions # <<>>
    /\ parking_transactions[Len(parking_transactions)].lot_id = l
    /\ parking_transactions[Len(parking_transactions)].entry_time =
          parking_spaces[l][k].entry_time

\* C16: a space freed by a successful UnparkVehicle is eligible again: it is
\* unoccupied when the call returns, and the next ParkVehicle on the lot
\* claims it whenever it is not in maintenance and no lower-numbered space is
\* free and out of maintenance.
C16_FreedSpaceReused ==
    /\ [](\A q \in Procs :
            Returned(q, "unpark", "ok") => JustFreed(loc[q].lot, loc[q].sid))
    /\ [][\A p \in Procs :
            SelectsSpace(p) =>
                \A k \in Spaces(loc[p].lot) :
                    (/\ JustFreed(loc[p].lot, k)
                     /\ ~InMaintenance(loc[p].lot, k)
                     /\ \A n \in Spaces(loc[p].lot) :
                           n < k => Occupied(loc[p].lot, n) \/ InMaintenance(loc[p].lot, n))
                    => pc'[p] = "park_update" /\ loc'[p].sid = k]_vars

\* space 2 was freed and is claimed again while space 1 stays occupied
C16_Witness ==
    \E p \in Procs :
        /\ pc[p] = "park_insert"
        /\ loc[p].slot = 2
        /\ Occupied(loc[p].lot, 1)
        /\ failures = 0
        /\ Len(parking_transactions) = 1
        /\ Cardinality(RecordsOf(loc[p].lot, 1)) = 1
        /\ Cardinality(RecordsOf(loc[p].lot, 2)) = 1

\* process p ends an UnparkVehicle with its fee in this step
ClosesOk(p) == pc[p] = "unpark_txn" /\ pc'[p] = "ret" /\ loc'[p].ret = "ok"

\* C17: the transaction history is append-only. A step either leaves
\* parking_transactions as it is or is the last step of a successful
\* UnparkVehicle, which appends exactly one row (lot, plate, entry time, exit
\* time, fee) behind the rows there are; failed UnparkVehicle calls and all
\* other calls append none, and no row is ever modified or removed, so the
\* rows of a lot are as many as the successful UnparkVehicle calls on it.
C17_TransactionsAppendOnly ==
    [][/\ \/ parking_transactions' = parking_transactions
          \/ \E p \in Procs :
                /\ ClosesOk(p)
                /\ Len(parking_transactions') = Len(parking_transactions) + 1
                /\ \A i \in DOMAIN parking_transactions :
                      parking_transactions'[i] = parking_transactions[i]
                /\ LET row == parking_transactions'[Len(parking_transactions')]
                   IN  /\ row.lot_id = loc[p].lot
                       /\ row.vehicle_license_plate = loc[p].plate
                       /\ row.entry_time = loc[p].entry
                       /\ row.fee = loc[p].fee
                       /\ row.exit_time > row.entry_time
       /\ \A p \in Procs :
             ClosesOk(p) => Len(parking_transactions') = Len(parking_transactions) + 1]_vars

\* a second UnparkVehicle has returned its fee and the history has two rows
C17_Witness ==
    \E p \in Procs :
        /\ Returned(p, "unpark", "ok")
        /\ failures = 0
        /\ Len(parking_transactions) = 2
        /\ parking_transactions[1].exit_time < parking_transactions[2].exit_time

\* process p frees a space in this step: its UPDATE ... SET occupied = false ran
Frees(p) == pc[p] = "unpark_update" /\ pc'[p] = "unpark_txn"

\* C18: a successful UnparkVehicle(lot, plate) frees exactly the space the
\* plate holds in the lot, the one its latest ParkVehicle claimed, whatever
\* park and unpark cycles came before; the entry time it uses for the fee and
\* the transaction is the entry time of that claim, and every other space
\* stays as it was.
C18_FreesThePlatesSpace ==
    [][\A p \in Procs :
          Frees(p) =>
              LET l == loc[p].lot
                  k == loc[p].sid
              IN  /\ HoldsSpace(l, k, loc[p].plate)
                  /\ ~Occupied(l, k)'
                  /\ loc'[p].entry = parking_spaces[l][k].entry_time
                  /\ \A m \in DOMAIN parking_spaces : \A n \in Spaces(m) :
                        (m # l \/ n # k) => parking_spaces'[m][n] = parking_spaces[m][n]]_vars

\* C19: in every state a space has an entry time exactly when it is occupied:
\* ParkVehicle sets entry_time together with occupied, and UnparkVehicle
\* clears both (entry_time 0 is the NULL of a space never parked in).
C19_EntryTimeIffOccupied ==
    \A l \in DOMAIN parking_spaces : \A n \in Spaces(l) :
        (parking_spaces[l][n].entry_time # 0) <=> Occupied(l, n)

\* the spaces of lot l that the plate holds
SpacesHeldBy(l, plate) == {n \in Spaces(l) : HoldsSpace(l, n, plate)}

\* C20: in every state a license plate is the active occupant of at most one
\* space of a lot: a ParkVehicle for a plate that holds a space of the lot
\* claims no second one.
C20_OneSpacePerPlate ==
    \A l \in DOMAIN parking_spaces : \A plate \in Plates :
        Cardinality(SpacesHeldBy(l, plate)) <= 1

====
